---- MODULE Spec2Model ----
(***************************************************************************)
(* Model of src/app.py, the Streamlit data quality scoring application.    *)
(*                                                                         *)
(* Streamlit re-executes the whole script from top to bottom after every   *)
(* widget interaction.  The state that survives between two executions is  *)
(* the widget state (the uploaded file, the selected page, the question);  *)
(* everything else (df, the four dimension scores, dqs, what is drawn) is  *)
(* recomputed by the execution.  Every action below is one interaction     *)
(* followed by the complete script execution it triggers.                  *)
(*                                                                         *)
(* Numbers: the scores are IEEE doubles in the program.  They are modelled *)
(* as exact rationals plus NaN; where a double's rounding to two decimals  *)
(* depends on its binary representation (an exact decimal tie) both        *)
(* neighbours are allowed.                                                 *)
(*                                                                         *)
(* Libraries: pd.read_csv is the C parser with its defaults (low_memory,   *)
(* "NA" among the missing-value markers, text columns of dtype object with *)
(* nan for a missing cell); numpy scalars divide 0/0 to nan with a warning;*)
(* st.bar_chart accepts the dict of four scalars.                          *)
(***************************************************************************)
EXTENDS Integers, Sequences, FiniteSets, TLC

\* Largest number of data cells (rows * columns) of an uploaded file.
MaxCells == 4
\* Rows the CSV parser types at a time (pandas' low_memory buffer_lines,
\* 2^20 \div table width rounded down to a power of two, scaled down here).
BufferLines == 2

(***************************************************************************)
(* Rationals with NaN                                                      *)
(***************************************************************************)
RECURSIVE GCD(_, _)
GCD(a, b) == IF b = 0 THEN a ELSE GCD(b, a % b)

Abs(x) == IF x < 0 THEN -x ELSE x

NaN == [nan |-> TRUE, n |-> 0, d |-> 1]

\* The rational n/d (d # 0) in lowest terms with a positive denominator.
Rat(n, d) ==
    LET s == IF d < 0 THEN -1 ELSE 1
        g == GCD(Abs(n), Abs(d))
    IN  [nan |-> FALSE, n |-> (s * n) \div g, d |-> (s * d) \div g]

Num(k) == Rat(k, 1)

RAdd(a, b) == IF a.nan \/ b.nan THEN NaN ELSE Rat(a.n * b.d + b.n * a.d, a.d * b.d)
RSub(a, b) == IF a.nan \/ b.nan THEN NaN ELSE Rat(a.n * b.d - b.n * a.d, a.d * b.d)
RMul(a, b) == IF a.nan \/ b.nan THEN NaN ELSE Rat(a.n * b.n, a.d * b.d)
\* numpy division: 0/0 is nan (a RuntimeWarning, no exception).  The only zero
\* divisor the script can meet is len(df) = 0, and its dividend is then 0 too.
RDiv(a, b) == IF a.nan \/ b.nan \/ b.n = 0 THEN NaN ELSE Rat(a.n * b.d, a.d * b.n)

\* Comparisons; every comparison with nan is False.
RLt(a, b) == ~a.nan /\ ~b.nan /\ a.n * b.d < b.n * a.d
RGe(a, b) == ~a.nan /\ ~b.nan /\ a.n * b.d >= b.n * a.d

\* round(x, 2): the multiples of 1/100 nearest to x (both at an exact tie).
Round2(x) ==
    IF x.nan THEN {NaN}
    ELSE LET h == (100 * x.n) \div x.d
             r == (100 * x.n) % x.d
         IN  IF 2 * r < x.d THEN {Rat(h, 100)}
             ELSE IF 2 * r > x.d THEN {Rat(h + 1, 100)}
             ELSE {Rat(h, 100), Rat(h + 1, 100)}

\* sum(xs) and Series.mean(): the mean of no values is nan.
RECURSIVE RSum(_)
RSum(xs) == IF xs = <<>> THEN Num(0) ELSE RAdd(Head(xs), RSum(Tail(xs)))

Mean(xs) == IF xs = <<>> THEN NaN ELSE RDiv(RSum(xs), Num(Len(xs)))

RECURSIVE SumInt(_)
SumInt(xs) == IF xs = <<>> THEN 0 ELSE Head(xs) + SumInt(Tail(xs))

Bool01(b) == IF b THEN 1 ELSE 0

(***************************************************************************)
(* The uploaded file and pd.read_csv                                       *)
(***************************************************************************)
\* Field texts of a CSV data cell: a non-negative integer, a negative integer,
\* a text, and a missing-value marker.
Fields == {"1", "-1", "a", "NA"}

NoFile == [present |-> FALSE, ncols |-> 0, rows |-> <<>>]

\* A CSV with a header of c column names and r data rows of c fields each.
FilesOfShape(r, c) ==
    {[present |-> TRUE, ncols |-> c, rows |-> rs] : rs \in [1..r -> [1..c -> Fields]]}

Shapes ==
    {<<r, c>> \in (0..MaxCells) \X (0..MaxCells) :
        /\ r * c <= MaxCells
        /\ (c = 0 => r = 0)}

SmallFiles == UNION {FilesOfShape(s[1], s[2]) : s \in Shapes}

\* n copies of the field x.
Rep(x, n) == [i \in 1..n |-> x]

\* The file whose columns are cols (all of one length).
ColsFile(cols) ==
    [present |-> TRUE, ncols |-> Len(cols),
     rows |-> [i \in 1..Len(cols[1]) |-> [j \in 1..Len(cols) |-> cols[j][i]]]]

\* Two columns, four rows, one column entirely missing.
FileHalfMissing == ColsFile(<<Rep("NA", 4), Rep("1", 4)>>)
\* Ten rows of which three repeat an earlier row.
FileThreeRepeats ==
    ColsFile(<<<<"1", "1", "1", "-1", "-1", "-1", "NA", "1", "1", "-1">>,
               <<"1", "-1", "NA", "1", "-1", "NA", "1", "1", "-1", "1">>>>)
\* Two columns, five rows: a numeric column with one negative value, a text column.
FileOneNegative == ColsFile(<<<<"1", "1", "-1", "1", "1">>, Rep("a", 5)>>)
\* Three columns, one of which holds integers in its first buffer and a text after it.
FileMixedColumn ==
    ColsFile(<<Rep("1", BufferLines) \o <<"a">>,
               Rep("1", BufferLines + 1),
               Rep("a", BufferLines + 1)>>)
\* Files whose scores sit exactly on a threshold of the insights.
FileOneInFiveMissing == ColsFile(<<<<"1", "-1", "1", "-1", "NA">>>>)
FileOneInTenRepeats ==
    ColsFile(<<<<"1", "1", "1", "-1", "-1", "-1", "NA", "NA", "NA", "1">>,
               <<"1", "-1", "NA", "1", "-1", "NA", "1", "-1", "NA", "1">>>>)
FileThreeInTwentyNegative == ColsFile(<<Rep("1", 17) \o Rep("-1", 3)>>)
FileOneInFiveColumnsMixed ==
    ColsFile(<<<<"a", "NA">>, <<"1", "-1">>, <<"1", "-1">>, <<"a", "a">>, <<"1", "1">>>>)
FileFiveEqualRows == ColsFile(<<Rep("1", 5)>>)

SampleFiles ==
    {FileHalfMissing, FileThreeRepeats, FileOneNegative, FileMixedColumn,
     FileOneInFiveMissing, FileOneInTenRepeats, FileThreeInTwentyNegative,
     FileOneInFiveColumnsMixed, FileFiveEqualRows}

Files == SmallFiles \cup SampleFiles

IsNA(f) == f = "NA"
IsIntText(f) == f \in {"1", "-1"}

\* The rows of the file cut into the parser's buffers of BufferLines rows.
NChunks(nrows) == (nrows + BufferLines - 1) \div BufferLines
ChunkOf(i) == ((i - 1) \div BufferLines) + 1
ChunkRows(nrows, k) == {i \in 1..nrows : ChunkOf(i) = k}

\* The dtype the parser infers for column j from the rows of one buffer.
ChunkDtype(f, j, k) ==
    LET fs == {f.rows[i][j] : i \in ChunkRows(Len(f.rows), k)}
    IN  IF \E x \in fs : ~IsNA(x) /\ ~IsIntText(x) THEN "object"
        ELSE IF \E x \in fs : IsNA(x) THEN "float64"
        ELSE "int64"

\* The dtype of column j after the buffers are concatenated.
ColDtype(f, j) ==
    LET ds == {ChunkDtype(f, j, k) : k \in 1..NChunks(Len(f.rows))}
    IN  IF ds = {} \/ "object" \in ds THEN "object"
        ELSE IF "float64" \in ds THEN "float64"
        ELSE "int64"

NaNCell == [t |-> "float", v |-> "nan"]

\* The value of the cell in row i, column j of the frame: t is type(value),
\* v its text ("nan" for the missing value).
CellOf(f, i, j) ==
    LET x  == f.rows[i][j]
        cd == ChunkDtype(f, j, ChunkOf(i))
        d  == ColDtype(f, j)
    IN  IF IsNA(x) THEN NaNCell
        ELSE IF cd = "object" THEN [t |-> "str", v |-> x]
        ELSE IF d = "float64" \/ cd = "float64" THEN [t |-> "float", v |-> x]
        ELSE [t |-> "int", v |-> x]

\* df = pd.read_csv(file), for a file with at least one column.
read_csv(f) ==
    [nrows |-> Len(f.rows),
     cols  |-> [j \in 1..f.ncols |->
                  [dtype |-> ColDtype(f, j),
                   cells |-> [i \in 1..Len(f.rows) |-> CellOf(f, i, j)]]]]

EmptyFrame == [nrows |-> 0, cols |-> <<>>]

(***************************************************************************)
(* The data quality metrics                                                *)
(***************************************************************************)
isnull(cell) == cell.v = "nan"

NumVal(cell) == IF cell.v = "1" THEN 1 ELSE -1

\* Variant: the comparison lets the missing value pass.
Ge0OrMissing(cell) == isnull(cell) \/ NumVal(cell) >= 0

\* df[col] >= 0, elementwise; nan >= 0 is False.
Ge0(cell) == ~isnull(cell) /\ NumVal(cell) >= 0

\* len(str(value)) after astype(str): "1", "-1", "1.0", "-1.0", "a", "nan".
StrLen(cell) ==
    IF isnull(cell) THEN 3
    ELSE IF cell.t = "float" THEN (IF cell.v = "1" THEN 3 ELSE 4)
    ELSE IF cell.v = "-1" THEN 2
    ELSE 1

\* The value a cell is compared by when rows are hashed: numbers by value
\* whatever their type (1 == 1.0), nan equal to nan, text by its characters.
CellKey(cell) == [num |-> cell.t # "str", v |-> cell.v]

RowKey(d, i) == [j \in 1..Len(d.cols) |-> CellKey(d.cols[j].cells[i])]

\* Variant: duplicated(keep=False), every member of a group of equal rows.
duplicatedKeepFalse(d) ==
    [i \in 1..d.nrows |-> \E k \in (1..d.nrows) \ {i} : RowKey(d, k) = RowKey(d, i)]

\* df.duplicated(): row i repeats an earlier row.
duplicated(d) == [i \in 1..d.nrows |-> \E k \in 1..(i - 1) : RowKey(d, k) = RowKey(d, i)]

\* Variant: df.isnull().any().mean(), the share of columns with a missing cell.
CompletenessAnyMissing(d) ==
    LET colany == [j \in 1..Len(d.cols) |->
                     Num(Bool01(\E i \in 1..d.nrows : isnull(d.cols[j].cells[i])))]
    IN  RMul(RSub(Num(1), Mean(colany)), Num(100))

\* completeness = (1 - df.isnull().mean().mean()) * 100
Completeness(d) ==
    LET colmean == [j \in 1..Len(d.cols) |->
                      Mean([i \in 1..d.nrows |-> Num(Bool01(isnull(d.cols[j].cells[i])))])]
    IN  RMul(RSub(Num(1), Mean(colmean)), Num(100))

\* uniqueness = (1 - df.duplicated().sum() / len(df)) * 100
Uniqueness(d) ==
    LET dup == duplicated(d)
        s   == SumInt([i \in 1..d.nrows |-> Bool01(dup[i])])
    IN  RMul(RSub(Num(1), RDiv(Num(s), Num(d.nrows))), Num(100))

\* Variant: only "int64" in the dtype list.
IsIntegerDtype(dt) == dt = "int64"

IsNumericDtype(dt) == dt \in {"int64", "float64"}

\* One iteration of the validity loop: the valid cells of column j.
ValidInCol(d, j) ==
    LET c == d.cols[j]
    IN  IF IsNumericDtype(c.dtype)
        THEN SumInt([i \in 1..d.nrows |-> Bool01(Ge0(c.cells[i]))])
        ELSE SumInt([i \in 1..d.nrows |-> Bool01(StrLen(c.cells[i]) > 0)])

\* The validity loop over df.columns from column j on, entered with
\* acc = <<valid_count, total_count>>.
RECURSIVE ValidityLoop(_, _, _)
ValidityLoop(d, j, acc) ==
    IF j > Len(d.cols) THEN acc
    ELSE ValidityLoop(d, j + 1, <<acc[1] + ValidInCol(d, j), acc[2] + d.nrows>>)

\* validity = (valid_count / total_count) * 100
Validity(d) ==
    LET vt == ValidityLoop(d, 1, <<0, 0>>)
    IN  RMul(RDiv(Num(vt[1]), Num(vt[2])), Num(100))

\* df[col].map(type).nunique() == 1
TypeConsistent(d, j) ==
    Cardinality({d.cols[j].cells[i].t : i \in 1..d.nrows}) = 1

\* consistency = sum(... for col in df.columns) / len(df.columns) * 100
Consistency(d) ==
    LET s == SumInt([j \in 1..Len(d.cols) |-> Bool01(TypeConsistent(d, j))])
    IN  RMul(RDiv(Num(s), Num(Len(d.cols))), Num(100))

\* The weights of the composite score.
WCompleteness == Rat(3, 10)
WValidity == Rat(25, 100)
WUniqueness == Rat(25, 100)
WConsistency == Rat(2, 10)

\* Variant: the four dimensions weighted equally.
WeightedSumEqualWeights(c, v, u, k) ==
    RMul(Rat(25, 100), RAdd(RAdd(RAdd(c, v), u), k))

\* The weighted sum that dqs rounds.
WeightedSum(c, v, u, k) ==
    RAdd(RAdd(RAdd(RMul(WCompleteness, c), RMul(WValidity, v)),
              RMul(WUniqueness, u)),
         RMul(WConsistency, k))

(***************************************************************************)
(* The explainable insights of the Dashboard page                          *)
(***************************************************************************)
CompletenessMin == 80
UniquenessMin == 90
ValidityMin == 85
ConsistencyMin == 80
GoodMin == 80

MsgMissing == "Missing values detected."
MsgDuplicate == "Duplicate records reduce uniqueness."
MsgValidation == "Validation rule violations found."
MsgSchema == "Schema inconsistencies detected."
MsgGood == "Overall data quality is good."

When(b, msg) == IF b THEN <<msg>> ELSE <<>>

\* Variant: the affirmation needs dqs > 80.
InsightsStrictGood(c, v, u, k, q) ==
    When(RLt(c, Num(CompletenessMin)), MsgMissing)
    \o When(RLt(u, Num(UniquenessMin)), MsgDuplicate)
    \o When(RLt(v, Num(ValidityMin)), MsgValidation)
    \o When(RLt(k, Num(ConsistencyMin)), MsgSchema)
    \o When(RGe(q, Num(GoodMin)) /\ q # Num(GoodMin), MsgGood)

\* The st.warning / st.success calls of the second dashboard column, in order.
Insights(c, v, u, k, q) ==
    When(RLt(c, Num(CompletenessMin)), MsgMissing)
    \o When(RLt(u, Num(UniquenessMin)), MsgDuplicate)
    \o When(RLt(v, Num(ValidityMin)), MsgValidation)
    \o When(RLt(k, Num(ConsistencyMin)), MsgSchema)
    \o When(RGe(q, Num(GoodMin)), MsgGood)

(***************************************************************************)
(* State                                                                   *)
(***************************************************************************)
VARIABLES
    file,          \* the file held by st.file_uploader (NoFile when empty)
    page,          \* the value of the sidebar radio
    question,      \* the value of the Co-Pilot text input
    stage,         \* how the last script run ended: "stopped", "error", "done"
    error,         \* the exception that ended it, "" when none
    df,            \* the frame read from the file
    completeness, validity, uniqueness, consistency,
    dqs,           \* the composite score
    observations,  \* the warnings and the affirmation drawn, in order
    caption,       \* the record count of the dashboard caption, -1 when not drawn
    shown          \* the score values drawn on the page, in order

vars == <<file, page, question, stage, error, df, completeness, validity,
          uniqueness, consistency, dqs, observations, caption, shown>>

Pages == {"Dashboard", "Dataset", "Quality Analysis", "AI Co-Pilot"}
DefaultPage == "Dashboard"
Questions == {"", "How is the quality of this dataset?"}

\* A name the script run never bound.
Unset == [nan |-> TRUE, n |-> 0, d |-> 0]

IsNumber(x) == ~x.nan

(***************************************************************************)
(* One execution of the script                                             *)
(***************************************************************************)
\* Lines 97-99: no file, st.info and st.stop().
Stopped ==
    /\ stage' = "stopped"
    /\ error' = ""
    /\ df' = EmptyFrame
    /\ completeness' = Unset /\ validity' = Unset
    /\ uniqueness' = Unset /\ consistency' = Unset /\ dqs' = Unset
    /\ observations' = <<>>
    /\ caption' = -1
    /\ shown' = <<>>

\* Line 109 on a file without columns: pandas.errors.EmptyDataError, uncaught;
\* Streamlit shows the exception and the run ends.
ReadFails ==
    /\ stage' = "error"
    /\ error' = "EmptyDataError"
    /\ df' = EmptyFrame
    /\ completeness' = Unset /\ validity' = Unset
    /\ uniqueness' = Unset /\ consistency' = Unset /\ dqs' = Unset
    /\ observations' = <<>>
    /\ caption' = -1
    /\ shown' = <<>>

\* Lines 153-228: the page drawn from the scores.
Render(p, q, d, c, v, u, k, s) ==
    /\ observations' = IF p = "Dashboard" THEN Insights(c, v, u, k, s) ELSE <<>>
    /\ caption' = IF p = "Dashboard" THEN d.nrows ELSE -1
    /\ CASE p = "Dashboard" -> shown' = <<s, c, v, u, k>>
         [] p = "Dataset" -> shown' = <<>>
         [] p = "Quality Analysis" ->
                \E rc \in Round2(c), rv \in Round2(v), ru \in Round2(u), rk \in Round2(k) :
                    shown' = <<rc, rv, ru, rk>>
         [] p = "AI Co-Pilot" ->
                IF q = "" THEN shown' = <<>>
                ELSE \E rc \in Round2(c), rv \in Round2(v), ru \in Round2(u), rk \in Round2(k) :
                        shown' = <<s, rc, rv, ru, rk>>

\* Lines 109-228: read the file, compute the scores, draw the page.
Scored(f, p, q) ==
    /\ stage' = "done"
    /\ error' = ""
    /\ df' = read_csv(f)
    /\ completeness' = Completeness(df')
    /\ uniqueness' = Uniqueness(df')
    /\ validity' = Validity(df')
    /\ consistency' = Consistency(df')
    /\ dqs' \in Round2(WeightedSum(completeness', validity', uniqueness', consistency'))
    /\ Render(p, q, df', completeness', validity', uniqueness', consistency', dqs')

\* Variant: read_csv returns a frame without columns instead of raising.
ScriptReadNeverFails(f, p, q) ==
    IF ~f.present THEN Stopped ELSE Scored(f, p, q)

\* The whole script on the widget state (f, p, q).
Script(f, p, q) ==
    IF ~f.present THEN Stopped
    ELSE IF f.ncols = 0 THEN ReadFails
    ELSE Scored(f, p, q)

(***************************************************************************)
(* Interactions                                                            *)
(***************************************************************************)
Init ==
    /\ file = NoFile
    /\ page = DefaultPage
    /\ question = ""
    /\ stage = "stopped"
    /\ error = ""
    /\ df = EmptyFrame
    /\ completeness = Unset /\ validity = Unset
    /\ uniqueness = Unset /\ consistency = Unset /\ dqs = Unset
    /\ observations = <<>>
    /\ caption = -1
    /\ shown = <<>>

\* The user drops a CSV on the empty uploader.
Upload ==
    /\ ~file.present
    /\ \E f \in Files :
          /\ file' = f
          /\ UNCHANGED <<page, question>>
          /\ Script(f, page, question)

\* The user removes the file.  The radio and the text input are not drawn by
\* the run that follows, so their values are dropped.
RemoveFile ==
    /\ file.present
    /\ file' = NoFile
    /\ page' = DefaultPage
    /\ question' = ""
    /\ Script(NoFile, DefaultPage, "")

\* The user picks another page in the sidebar.
SelectPage ==
    /\ file.present
    /\ \E p \in Pages \ {page} :
          /\ page' = p
          /\ question' = ""
          /\ UNCHANGED file
          /\ Script(file, p, "")

\* The user submits the Co-Pilot text input.
AskQuestion ==
    /\ stage = "done"
    /\ page = "AI Co-Pilot"
    /\ \E q \in Questions \ {question} :
          /\ question' = q
          /\ UNCHANGED <<file, page>>
          /\ Script(file, page, q)

Next == Upload \/ RemoveFile \/ SelectPage \/ AskQuestion

Spec == Init /\ [][Next]_vars

(***************************************************************************)
(* Properties                                                              *)
(***************************************************************************)
\* The positions <<row, column>> of the frame, and the cell at a position.
Positions(d) == (1..d.nrows) \X (1..Len(d.cols))
CellAt(d, pos) == d.cols[pos[2]].cells[pos[1]]

\* A run that read a frame with at least one row and computed the scores.
ScoredRows == stage = "done" /\ df.nrows >= 1 /\ Len(df.cols) >= 1

\* |a - b| <= 1/200, for numbers a and b.
WithinHalfHundredth(a, b) ==
    LET diff == RSub(a, b) IN ~diff.nan /\ 200 * Abs(diff.n) <= diff.d

IsHundredths(x) == ~x.nan /\ 100 % x.d = 0

\* 0.30*completeness + 0.25*validity + 0.25*uniqueness + 0.20*consistency.
DocumentedSum ==
    RSum(<<RMul(Rat(30, 100), completeness), RMul(Rat(25, 100), validity),
           RMul(Rat(25, 100), uniqueness), RMul(Rat(20, 100), consistency)>>)

\* C1: for a dataset with at least one row and one column, dqs is the
\* documented weighted sum of the four unrounded dimension scores of the same
\* run, rounded to two decimal places.
C1_CompositeIsRoundedSum ==
    ScoredRows =>
        /\ IsHundredths(dqs)
        /\ WithinHalfHundredth(dqs, DocumentedSum)

C1_Witness ==
    /\ ScoredRows
    /\ dqs # DocumentedSum
    /\ completeness # validity
    /\ uniqueness # consistency

InPercentRange(x) == IsNumber(x) /\ RGe(x, Num(0)) /\ RGe(Num(100), x)

\* C2: for every dataset that is scored, zero rows included, each of the four
\* dimension scores and the composite is a defined number in [0, 100].
C2_ScoresInRange ==
    stage = "done" =>
        /\ InPercentRange(completeness)
        /\ InPercentRange(validity)
        /\ InPercentRange(uniqueness)
        /\ InPercentRange(consistency)
        /\ InPercentRange(dqs)

\* The columns whose non-missing values share a single type.
NonMissingTypes(d, j) == {d.cols[j].cells[i].t : i \in {r \in 1..d.nrows : ~isnull(d.cols[j].cells[r])}}
ConsistentIgnoringMissing(d) == {j \in 1..Len(d.cols) : Cardinality(NonMissingTypes(d, j)) <= 1}

\* C3: a column is type-consistent iff its non-missing values share one type,
\* missing cells being ignored, and consistency is the share of such columns
\* times 100.
C3_ConsistencyIgnoresMissing ==
    ScoredRows =>
        consistency = Rat(100 * Cardinality(ConsistentIgnoringMissing(df)), Len(df.cols))

\* The valid cells by the rule: value >= 0 in a numeric column, non-empty
\* string form elsewhere.
ValidCells(d) ==
    {pos \in Positions(d) :
        IF d.cols[pos[2]].dtype \in {"int64", "float64"}
        THEN Ge0(CellAt(d, pos))
        ELSE StrLen(CellAt(d, pos)) > 0}

\* C4: validity is valid_cell_count / total_cell_count * 100 with
\* total_cell_count = rows * columns (not a number when there is no cell).
C4_ValidityIsValidShare ==
    stage = "done" =>
        LET total == df.nrows * Len(df.cols)
        IN  IF total = 0 THEN validity = NaN
            ELSE validity = Rat(100 * Cardinality(ValidCells(df)), total)

C4_Witness ==
    /\ stage = "done"
    /\ file = FileOneNegative
    /\ validity = Num(90)

\* Two rows hold the same tuple of cell values.
SameValue(a, b) == a.v = b.v /\ ((a.t = "str") <=> (b.t = "str"))
SameRow(d, i, k) == \A j \in 1..Len(d.cols) : SameValue(d.cols[j].cells[i], d.cols[j].cells[k])
FirstOccurrences(d) == {i \in 1..d.nrows : \A k \in 1..(i - 1) : ~SameRow(d, i, k)}

\* C5: with at least one row, uniqueness is (1 - d/n) * 100 where d counts
\* the rows equal to an earlier row, first occurrences never being counted.
C5_UniquenessIsShareOfFirstOccurrences ==
    ScoredRows =>
        uniqueness = Rat(100 * Cardinality(FirstOccurrences(df)), df.nrows)

C5_Witness ==
    /\ stage = "done"
    /\ file = FileThreeRepeats
    /\ uniqueness = Num(70)

MissingCells(d) == {pos \in Positions(d) : isnull(CellAt(d, pos))}

\* C6: with at least one row and one column, the column-mean completeness
\* equals (1 - total_missing_cells / total_cells) * 100.
C6_CompletenessIsCellShare ==
    ScoredRows =>
        LET total == df.nrows * Len(df.cols)
        IN  completeness = Rat(100 * (total - Cardinality(MissingCells(df))), total)

C6_Witness ==
    /\ stage = "done"
    /\ file = FileHalfMissing
    /\ completeness = Num(50)

\* x < t and x >= t for a score x and an integer t; False for nan.
Below(x, t) == ~x.nan /\ x.n < t * x.d
AtLeast(x, t) == ~x.nan /\ x.n >= t * x.d

ThresholdTable ==
    <<[msg |-> "Missing values detected.", on |-> Below(completeness, 80)],
      [msg |-> "Duplicate records reduce uniqueness.", on |-> Below(uniqueness, 90)],
      [msg |-> "Validation rule violations found.", on |-> Below(validity, 85)],
      [msg |-> "Schema inconsistencies detected.", on |-> Below(consistency, 80)],
      [msg |-> "Overall data quality is good.", on |-> AtLeast(dqs, 80)]>>

IsOn(row) == row.on
RowsToMsgs(rows) == [i \in 1..Len(rows) |-> rows[i].msg]

\* C7: the observations of the dashboard are exactly the rows of the threshold
\* table whose condition holds, each decided on its own, in the table's order.
C7_ObservationsMatchTable ==
    (stage = "done" /\ page = "Dashboard") =>
        observations = RowsToMsgs(SelectSeq(ThresholdTable, IsOn))

\* A composite exactly at 80 draws the affirmation, next to a warning.
C7_Witness ==
    /\ stage = "done" /\ page = "Dashboard"
    /\ dqs = Num(80)
    /\ observations = <<MsgDuplicate, MsgGood>>

\* C8: a file with columns and no data row either fails with an error before
\* any score is drawn, or gets defined numbers for the scores.
C8_ZeroRowsNeverNaN ==
    (file.present /\ file.ncols >= 1 /\ Len(file.rows) = 0) =>
        \/ stage = "error"
        \/ /\ IsNumber(completeness) /\ IsNumber(validity)
           /\ IsNumber(uniqueness) /\ IsNumber(dqs)

NothingScored ==
    /\ completeness = Unset /\ validity = Unset /\ uniqueness = Unset
    /\ consistency = Unset /\ dqs = Unset
    /\ observations = <<>> /\ shown = <<>> /\ caption = -1

AllScored ==
    /\ completeness # Unset /\ validity # Unset /\ uniqueness # Unset
    /\ consistency # Unset /\ dqs # Unset

IsNumericCol(d, j) == d.cols[j].dtype \in {"int64", "float64"}
MissingInNumeric(d) == {pos \in MissingCells(d) : IsNumericCol(d, pos[2])}
MissingInOther(d) == {pos \in MissingCells(d) : ~IsNumericCol(d, pos[2])}
NoNegativeNumber(d) ==
    \A pos \in Positions(d) :
        (IsNumericCol(d, pos[2]) /\ ~isnull(CellAt(d, pos))) => NumVal(CellAt(d, pos)) >= 0

\* C10: a missing cell counts as invalid in a numeric column and as valid in
\* any other column; so without negative numbers the invalid cells are exactly
\* the missing cells of numeric columns, and validity < 100 iff there is one.
C10_MissingCountsByColumnKind ==
    (ScoredRows /\ NoNegativeNumber(df)) =>
        LET total == df.nrows * Len(df.cols)
        IN  /\ validity = Rat(100 * (total - Cardinality(MissingInNumeric(df))), total)
            /\ Below(validity, 100) <=> MissingInNumeric(df) # {}

C10_Witness ==
    /\ ScoredRows /\ NoNegativeNumber(df)
    /\ MissingInNumeric(df) # {}
    /\ MissingInOther(df) # {}
    /\ Below(validity, 100)

====
